---- MODULE Spec2Model ----
(***************************************************************************)
(* Model of packages/subquery/customs/onchain-data-fetcher:                *)
(* run and the module-global OpenAI client it shares through               *)
(* OpenAIClientManager.                                                    *)
(*                                                                         *)
(* Text is a sequence of string tokens; concatenation is \o.  Tool and     *)
(* engine names are spelled one character per token, because str.replace   *)
(* and list membership look at their characters.  An Optional value is a   *)
(* sequence of length at most one: None is << >>, a value x is <<x>>.      *)
(***************************************************************************)
EXTENDS Integers, Sequences, FiniteSets, TLC

\* ------------------------------------------------------------------ bounds
\* Number of calls of run() one behaviour makes (over all threads).
MaxRuns == 3

\* The threads of the process that may call run().
Threads == {"t1", "t2"}

\* ---------------------------------------------------------------- Optional
None == << >>
Some(x) == <<x>>

\* ------------------------------------------------------- module constants
PREFIX == <<"o", "p", "e", "n", "a", "i", "-">>

gpt_3_5_turbo == <<"g", "p", "t", "-", "3", ".", "5", "-", "t", "u", "r", "b", "o">>
gpt_4 == <<"g", "p", "t", "-", "4">>
gpt_3_5_turbo_instruct == gpt_3_5_turbo \o <<"-", "i", "n", "s", "t", "r", "u", "c", "t">>

\* The dict ENGINES, in insertion order: family -> list of engine names.
ENGINES ==
    << [family |-> "chat", names |-> <<gpt_3_5_turbo, gpt_4>>],
       [family |-> "completion", names |-> <<gpt_3_5_turbo_instruct>>] >>

\* for values in ENGINES.values() for value in values: the names, flattened.
RECURSIVE EngineValues(_)
EngineValues(families) ==
    IF families = << >> THEN << >>
    ELSE Head(families).names \o EngineValues(Tail(families))

\* ALLOWED_TOOLS = [PREFIX + value for values in ENGINES.values() for value in values]
ALLOWED_TOOLS ==
    [i \in 1..Len(EngineValues(ENGINES)) |-> PREFIX \o EngineValues(ENGINES)[i]]

\* x in lst, for a Python list.
InList(x, lst) == \E i \in 1..Len(lst) : lst[i] = x

\* str.replace(old, new): every non-overlapping occurrence, left to right.
RECURSIVE Replace(_, _, _)
Replace(s, old, new) ==
    IF Len(s) < Len(old) THEN s
    ELSE IF SubSeq(s, 1, Len(old)) = old
         THEN new \o Replace(SubSeq(s, Len(old) + 1, Len(s)), old, new)
         ELSE <<Head(s)>> \o Replace(Tail(s), old, new)

\* An engine that keeps the tool string as it is.
EngineOf_keep(tool) == tool

\* engine = tool.replace(PREFIX, "")
EngineOf(tool) == Replace(tool, PREFIX, << >>)

\* --------------------------------------------------------------- json.dumps
\* A JSON value is <<"null">>, <<"array", elements>> or <<"object", members>>
\* with members a sequence of <<key, value>> pairs.
JNull == <<"null">>
JArray(elems) == <<"array", elems>>
JObject(members) == <<"object", members>>

RECURSIVE json_dumps(_)
RECURSIVE DumpItems(_)
RECURSIVE DumpMembers(_)
DumpItems(elems) ==
    IF elems = << >> THEN << >>
    ELSE json_dumps(Head(elems))
         \o (IF Len(elems) > 1 THEN <<", ">> ELSE << >>)
         \o DumpItems(Tail(elems))
DumpMembers(members) ==
    IF members = << >> THEN << >>
    ELSE <<"\"", Head(members)[1], "\"", ": ">> \o json_dumps(Head(members)[2])
         \o (IF Len(members) > 1 THEN <<", ">> ELSE << >>)
         \o DumpMembers(Tail(members))
json_dumps(v) ==
    CASE v[1] = "null" -> <<"null">>
      [] v[1] = "array" -> <<"[">> \o DumpItems(v[2]) \o <<"]">>
      [] v[1] = "object" -> <<"{">> \o DumpMembers(v[2]) \o <<"}">>

\* ------------------------------------------------------------------ prompts
generate_graphql_query(user_request, schema, description, examples) ==
    <<"\n    You are a GraphQL query generator. Based on the following GraphQL schema and the user's natural language request, generate a valid GraphQL query.\n\n    GraphQL Project Description: \"">>
    \o description
    \o <<"\"\n\n    User Request: \"">>
    \o user_request
    \o <<"\"\n\n    GraphQL Schema: ">>
    \o json_dumps(schema)
    \o <<"\n\n    Example Queries:\n\n    ">>
    \o examples
    \o <<"\n\n    GraphQL Query:\n\n">>

analyze_data_and_generate_response(data) ==
    <<"\n    \n    Once the query you have given was executed, the following data was fetched:\n\n    JSON Data: ">>
    \o json_dumps(data)
    \o <<"\n\n    Based on the provided context, please generate a bullet-pointed summary in a machine-readable JSON format. The JSON structure should have an array object named 'analysis_result,' with each analytical conclusion represented as a separate string element within the array.\n    ">>

introspection_query ==
    <<"\n    {\n      __schema {\n        types {\n          name\n          fields {\n            name\n            type {\n              kind\n              name\n            }\n          }\n        }\n      }\n    }\n    ">>

\* ------------------------------------------------------------------- inputs
gpt_5 == <<"g", "p", "t", "-", "5">>

\* Tool strings a caller may pass: the three supported ones, an engine name
\* without the prefix, a doubled prefix, and an unknown engine.
ToolInputs ==
    { PREFIX \o gpt_3_5_turbo, PREFIX \o gpt_4, PREFIX \o gpt_3_5_turbo_instruct,
      gpt_4, PREFIX \o PREFIX \o gpt_4, PREFIX \o gpt_5 }

RequestInputs == { <<"first transfer ever indexed">>, <<"top senders">> }
DescriptionInput == <<"cUSD transfers">>
ExamplesInput == <<"query MyQuery { transfers(first: 1) { nodes { id } } }">>
EndpointInput == <<"https://api.subquery.network/sq/subquery/cusdnew">>

\* The keyword arguments of one call.  tool is read with kwargs["tool"], the
\* others with kwargs.get; examples may be left out (None).
KwargsInputs ==
    { [has_tool |-> TRUE, tool |-> tl, examples |-> ex, request |-> rq,
       description |-> DescriptionInput, endpoint |-> EndpointInput] :
        tl \in ToolInputs, ex \in {None, Some(ExamplesInput)},
        rq \in RequestInputs }
    \cup
    { [has_tool |-> FALSE, tool |-> << >>, examples |-> Some(ExamplesInput),
       request |-> rq, description |-> DescriptionInput,
       endpoint |-> EndpointInput] : rq \in RequestInputs }

\* Overlapping callers are given one supported and one unsupported tool.
OverlapKwargsInputs ==
    { [has_tool |-> TRUE, tool |-> tl, examples |-> Some(ExamplesInput),
       request |-> <<"top senders">>, description |-> DescriptionInput,
       endpoint |-> EndpointInput] : tl \in {PREFIX \o gpt_4, gpt_4} }

KwargsFor(overlapping) ==
    IF overlapping THEN OverlapKwargsInputs ELSE KwargsInputs

NoKwargs ==
    [has_tool |-> FALSE, tool |-> << >>, examples |-> None, request |-> << >>,
     description |-> << >>, endpoint |-> << >>]

\* JSON documents the endpoint may answer with.
EmptySchema == JObject(<< <<"__schema", JObject(<< <<"types", JArray(<< >>)>> >>)>> >>)
EmptyNodes == JObject(<< <<"data", JObject(<< <<"nodes", JArray(<< >>)>> >>)>> >>)

\* An HTTP response: its status code and its body parsed as JSON (None when
\* the body is not JSON, so that response.json() raises).
HttpResponses ==
    { [status_code |-> 200, json |-> Some(EmptySchema)],
      [status_code |-> 200, json |-> Some(EmptyNodes)],
      [status_code |-> 200, json |-> None],
      [status_code |-> 500, json |-> Some(JNull)] }

\* Overlapping callers see one good and one bad response.
OverlapHttpResponses ==
    { [status_code |-> 200, json |-> Some(EmptyNodes)],
      [status_code |-> 500, json |-> Some(EmptyNodes)] }

HttpResponsesFor(overlapping) ==
    IF overlapping THEN OverlapHttpResponses ELSE HttpResponses

\* What chat.completions.create answers on an open connection: the content of
\* the first choice, or None when the call raises.
CompletionReplies == { Some(<<"query { nodes }">>), Some(<<"summary">>), None }

\* Overlapping callers see one answer and one failure.
OverlapCompletionReplies == { Some(<<"query { nodes }">>), None }

CompletionRepliesFor(overlapping) ==
    IF overlapping THEN OverlapCompletionReplies ELSE CompletionReplies

\* -------------------------------------------------------------------- state
VARIABLES
    client,            \* the module global: 0 is None, else the id of a client
    closed,            \* closed[i]: client i has been closed
    pc,                \* where each thread is in run()
    kwargs,            \* the arguments of the thread's current call
    tool, schema, prompt, engine, query_to_be_used, requested_data,
    calls,             \* the outside calls the current run has made, in order
    exc,               \* the exception in flight ("none" when there is none)
    result,            \* the tuple being returned (<< >> when there is none)
    acquired,          \* what __enter__ returned to the current run
    runs,              \* calls of run() so far
    overlap            \* whether callers may call run() while another runs

vars ==
    << client, closed, pc, kwargs, tool, schema, prompt, engine,
       query_to_be_used, requested_data, calls, exc, result, acquired,
       runs, overlap >>

locals == << tool, schema, prompt, engine, query_to_be_used, requested_data >>

\* ------------------------------------------------- fetch functions (79-112)
Returned(v) == [exc |-> "none", value |-> v]
Raised(e) == [exc |-> e, value |-> << >>]

\* A fetch that takes every response for a success.
fetch_graphql_schema_any_status(response) ==
    IF response.json = None THEN Raised("JSONDecodeError")
    ELSE Returned(response.json[1])

fetch_graphql_schema(response) ==
    IF response.status_code = 200
    THEN IF response.json = None THEN Raised("JSONDecodeError")
         ELSE Returned(response.json[1])
    ELSE Raised("Exception")

\* A fetch that takes every response for a success.
fetch_data_from_indexer_any_status(response) ==
    IF response.json = None THEN Raised("JSONDecodeError")
    ELSE Returned(response.json[1])

fetch_data_from_indexer(response) ==
    IF response.status_code = 200
    THEN IF response.json = None THEN Raised("JSONDecodeError")
         ELSE Returned(response.json[1])
    ELSE Raised("Exception")

\* ------------------------------------------------------------- the call log
UserMessage(content) == [role |-> "user", content |-> content]

PostCall(fn, endpoint, query, response) ==
    [fn |-> fn, endpoint |-> endpoint, query |-> query, engine |-> << >>,
     messages |-> << >>, conn |-> 0, usable |-> FALSE,
     status_code |-> response.status_code, json |-> response.json, text |-> None]

CompletionCall(model, messages, conn, usable, reply) ==
    [fn |-> "chat.completions.create", endpoint |-> << >>, query |-> << >>,
     engine |-> model, messages |-> messages, conn |-> conn, usable |-> usable,
     status_code |-> 0, json |-> None, text |-> reply]

Usable(c) == c # 0 /\ ~closed[c]

\* --------------------------------------------------------------------- Init
Init ==
    /\ client = 0
    /\ closed = << >>
    /\ pc = [t \in Threads |-> "idle"]
    /\ kwargs = [t \in Threads |-> NoKwargs]
    /\ tool = [t \in Threads |-> << >>]
    /\ schema = [t \in Threads |-> << >>]
    /\ prompt = [t \in Threads |-> << >>]
    /\ engine = [t \in Threads |-> << >>]
    /\ query_to_be_used = [t \in Threads |-> << >>]
    /\ requested_data = [t \in Threads |-> << >>]
    /\ calls = [t \in Threads |-> << >>]
    /\ exc = [t \in Threads |-> "none"]
    /\ result = [t \in Threads |-> << >>]
    /\ acquired = [t \in Threads |-> None]
    /\ runs = 0
    /\ overlap = FALSE

\* As Init, but the callers may or may not wait for one another.
InitConc ==
    /\ client = 0
    /\ closed = << >>
    /\ pc = [t \in Threads |-> "idle"]
    /\ kwargs = [t \in Threads |-> NoKwargs]
    /\ tool = [t \in Threads |-> << >>]
    /\ schema = [t \in Threads |-> << >>]
    /\ prompt = [t \in Threads |-> << >>]
    /\ engine = [t \in Threads |-> << >>]
    /\ query_to_be_used = [t \in Threads |-> << >>]
    /\ requested_data = [t \in Threads |-> << >>]
    /\ calls = [t \in Threads |-> << >>]
    /\ exc = [t \in Threads |-> "none"]
    /\ result = [t \in Threads |-> << >>]
    /\ acquired = [t \in Threads |-> None]
    /\ runs = 0
    /\ overlap \in BOOLEAN

\* ----------------------------------------------------------- run(), 115-117
\* A caller calls run(kwargs); the manager object is built.  Unless the
\* callers overlap, a call starts only when no other call is under way.
Call(t) ==
    /\ pc[t] = "idle"
    /\ runs < MaxRuns
    /\ overlap \/ \A u \in Threads : pc[u] = "idle"
    /\ \E kw \in KwargsFor(overlap) : kwargs' = [kwargs EXCEPT ![t] = kw]
    /\ runs' = runs + 1
    /\ pc' = [pc EXCEPT ![t] = "enter"]
    /\ UNCHANGED << client, closed, locals, calls, exc, result, acquired,
                    overlap >>

\* ------------------------------------------ OpenAIClientManager.__enter__
\* if client is None:
EnterCheck(t) ==
    /\ pc[t] = "enter"
    /\ pc' = [pc EXCEPT ![t] = IF client = 0 THEN "create" ELSE "enter_return"]
    /\ UNCHANGED << client, closed, kwargs, locals, calls, exc, result,
                    acquired, runs, overlap >>

\* A client built but never stored in the module global.
EnterCreate_local(t) ==
    /\ pc[t] = "create"
    /\ closed' = Append(closed, FALSE)
    /\ pc' = [pc EXCEPT ![t] = "enter_return"]
    /\ UNCHANGED << client, kwargs, locals, calls, exc, result, acquired,
                    runs, overlap >>

\*     client = OpenAI(api_key=self.api_key)
EnterCreate(t) ==
    /\ pc[t] = "create"
    /\ closed' = Append(closed, FALSE)
    /\ client' = Len(closed) + 1
    /\ pc' = [pc EXCEPT ![t] = "enter_return"]
    /\ UNCHANGED << kwargs, locals, calls, exc, result, acquired, runs,
                    overlap >>

\* return client
EnterReturn(t) ==
    /\ pc[t] = "enter_return"
    /\ acquired' = [acquired EXCEPT ![t] = IF client = 0 THEN None ELSE Some(client)]
    /\ pc' = [pc EXCEPT ![t] = "args"]
    /\ UNCHANGED << client, closed, kwargs, locals, calls, exc, result, runs,
                    overlap >>

\* --------------------------------------------------------- run(), 118-124
\* tool = kwargs["tool"] raises KeyError when the caller left it out.
ReadArgs(t) ==
    /\ pc[t] = "args"
    /\ IF kwargs[t].has_tool
       THEN /\ tool' = [tool EXCEPT ![t] = kwargs[t].tool]
            /\ pc' = [pc EXCEPT ![t] = "fetch_schema"]
            /\ exc' = exc
       ELSE /\ tool' = tool
            /\ pc' = [pc EXCEPT ![t] = "exit"]
            /\ exc' = [exc EXCEPT ![t] = "KeyError"]
    /\ UNCHANGED << client, closed, kwargs, schema, prompt, engine,
                    query_to_be_used, requested_data, calls, result, acquired,
                    runs, overlap >>

\* -------------------------------------------------------------- run(), 125
\* schema = fetch_graphql_schema(endpoint)
FetchSchema(t) ==
    /\ pc[t] = "fetch_schema"
    /\ \E response \in HttpResponsesFor(overlap) :
         LET got == fetch_graphql_schema(response) IN
         /\ calls' = [calls EXCEPT ![t] = Append(@,
                PostCall("fetch_graphql_schema", kwargs[t].endpoint,
                         introspection_query, response))]
         /\ IF got.exc = "none"
            THEN /\ schema' = [schema EXCEPT ![t] = got.value]
                 /\ pc' = [pc EXCEPT ![t] = "build_prompt"]
                 /\ exc' = exc
            ELSE /\ schema' = schema
                 /\ pc' = [pc EXCEPT ![t] = "exit"]
                 /\ exc' = [exc EXCEPT ![t] = got.exc]
    /\ UNCHANGED << client, closed, kwargs, tool, prompt, engine,
                    query_to_be_used, requested_data, result, acquired, runs,
                    overlap >>

\* -------------------------------------------------------------- run(), 126
\* prompt = generate_graphql_query(request, schema, description, examples);
\* str + None raises TypeError when examples was left out.
BuildPrompt(t) ==
    /\ pc[t] = "build_prompt"
    /\ IF kwargs[t].examples = None
       THEN /\ prompt' = prompt
            /\ pc' = [pc EXCEPT ![t] = "exit"]
            /\ exc' = [exc EXCEPT ![t] = "TypeError"]
       ELSE /\ prompt' = [prompt EXCEPT ![t] =
                generate_graphql_query(kwargs[t].request, schema[t],
                                       kwargs[t].description, kwargs[t].examples[1])]
            /\ pc' = [pc EXCEPT ![t] = "check_tool"]
            /\ exc' = exc
    /\ UNCHANGED << client, closed, kwargs, tool, schema, engine,
                    query_to_be_used, requested_data, calls, result, acquired,
                    runs, overlap >>

\* --------------------------------------------------------- run(), 127-134
\* A rejection that names no tool.
RejectedResult_anonymous(t) ==
    << Some(<<"Tool is not in the list of supported tools.">>), None, None, None >>

\* A rejection that hands back the prompt built on line 126.
RejectedResult_with_prompt(t) ==
    << Some(<<"Tool ">> \o tool[t] \o <<" is not in the list of supported tools.">>),
       Some(prompt[t]), None, None >>

\* return (f"Tool {tool} is not in the list of supported tools.", None, None, None)
RejectedResult(t) ==
    << Some(<<"Tool ">> \o tool[t] \o <<" is not in the list of supported tools.">>),
       None, None, None >>

\* A rejection raised instead of returned.
Reject_raise(t) ==
    /\ result' = result
    /\ exc' = [exc EXCEPT ![t] = "ValueError"]

\* The return statement of lines 128-133.
Reject(t) ==
    /\ result' = [result EXCEPT ![t] = RejectedResult(t)]
    /\ exc' = exc

CheckTool(t) ==
    /\ pc[t] = "check_tool"
    /\ IF ~InList(tool[t], ALLOWED_TOOLS)
       THEN /\ Reject(t)
            /\ engine' = engine
            /\ pc' = [pc EXCEPT ![t] = "exit"]
       ELSE /\ engine' = [engine EXCEPT ![t] = EngineOf(tool[t])]
            /\ pc' = [pc EXCEPT ![t] = "complete1"]
            /\ UNCHANGED << result, exc >>
    /\ UNCHANGED << client, closed, kwargs, tool, schema, prompt,
                    query_to_be_used, requested_data, calls, acquired, runs,
                    overlap >>

\* --------------------------------------------------------- run(), 135-148
\* What client.chat.completions.create can answer, given the module global
\* as the thread finds it: None has no attribute chat, a closed client cannot
\* send, an open one answers or fails.
RepliesOn(c) == IF Usable(c) THEN CompletionRepliesFor(overlap) ELSE {None}

ErrorOn(c) ==
    IF c = 0 THEN "AttributeError"
    ELSE IF closed[c] THEN "APIConnectionError" ELSE "APIError"

messages1(t) == << UserMessage(prompt[t]) >>

Complete1(t) ==
    /\ pc[t] = "complete1"
    /\ \E reply \in RepliesOn(client) :
         /\ calls' = [calls EXCEPT ![t] = Append(@,
                CompletionCall(engine[t], messages1(t), client, Usable(client), reply))]
         /\ IF reply # None
            THEN /\ query_to_be_used' = [query_to_be_used EXCEPT ![t] = reply[1]]
                 /\ pc' = [pc EXCEPT ![t] = "fetch_data"]
                 /\ exc' = exc
            ELSE /\ query_to_be_used' = query_to_be_used
                 /\ pc' = [pc EXCEPT ![t] = "exit"]
                 /\ exc' = [exc EXCEPT ![t] = ErrorOn(client)]
    /\ UNCHANGED << client, closed, kwargs, tool, schema, prompt, engine,
                    requested_data, result, acquired, runs, overlap >>

\* -------------------------------------------------------------- run(), 149
\* requested_data = fetch_data_from_indexer(endpoint, query_to_be_used)
FetchData(t) ==
    /\ pc[t] = "fetch_data"
    /\ \E response \in HttpResponsesFor(overlap) :
         LET got == fetch_data_from_indexer(response) IN
         /\ calls' = [calls EXCEPT ![t] = Append(@,
                PostCall("fetch_data_from_indexer", kwargs[t].endpoint,
                         query_to_be_used[t], response))]
         /\ IF got.exc = "none"
            THEN /\ requested_data' = [requested_data EXCEPT ![t] = got.value]
                 /\ pc' = [pc EXCEPT ![t] = "complete2"]
                 /\ exc' = exc
            ELSE /\ requested_data' = requested_data
                 /\ pc' = [pc EXCEPT ![t] = "exit"]
                 /\ exc' = [exc EXCEPT ![t] = got.exc]
    /\ UNCHANGED << client, closed, kwargs, tool, schema, prompt, engine,
                    query_to_be_used, result, acquired, runs, overlap >>

\* --------------------------------------------------------- run(), 150-167
\* A second conversation that leaves the generated query out.
messages2_without_query(t) ==
    << UserMessage(prompt[t]),
       UserMessage(analyze_data_and_generate_response(requested_data[t])) >>

messages2(t) ==
    << UserMessage(prompt[t]),
       UserMessage(query_to_be_used[t]),
       UserMessage(analyze_data_and_generate_response(requested_data[t])) >>

\* A result whose slots are swapped.
SuccessResult_swapped(t, content) ==
    << Some(prompt[t]), Some(content), None, None >>

\* return response.choices[0].message.content, prompt, None, None
SuccessResult(t, content) ==
    << Some(content), Some(prompt[t]), None, None >>

Complete2(t) ==
    /\ pc[t] = "complete2"
    /\ \E reply \in RepliesOn(client) :
         /\ calls' = [calls EXCEPT ![t] = Append(@,
                CompletionCall(engine[t], messages2(t), client, Usable(client), reply))]
         /\ IF reply # None
            THEN /\ result' = [result EXCEPT ![t] = SuccessResult(t, reply[1])]
                 /\ exc' = exc
            ELSE /\ result' = result
                 /\ exc' = [exc EXCEPT ![t] = ErrorOn(client)]
         /\ pc' = [pc EXCEPT ![t] = "exit"]
    /\ UNCHANGED << client, closed, kwargs, locals, acquired, runs, overlap >>

\* ------------------------------------------- OpenAIClientManager.__exit__
\* The run leaves the with block: to its caller with the tuple it returns,
\* or with the exception in flight (__exit__ returns None, so it is not
\* swallowed, and no tuple is returned).
Leave(t, e) ==
    /\ pc' = [pc EXCEPT ![t] = IF e = "none" THEN "returned" ELSE "raised"]
    /\ exc' = [exc EXCEPT ![t] = e]
    /\ result' = [result EXCEPT ![t] = IF e = "none" THEN @ ELSE << >>]

\* if client is not None:
ExitCheck(t) ==
    /\ pc[t] = "exit"
    /\ IF client # 0
       THEN /\ pc' = [pc EXCEPT ![t] = "exit_close"]
            /\ UNCHANGED << exc, result >>
       ELSE Leave(t, exc[t])
    /\ UNCHANGED << client, closed, kwargs, locals, calls, acquired, runs,
                    overlap >>

\*     client.close()   (None.close() raises when the global was cleared
\*     between the test and this line)
ExitClose(t) ==
    /\ pc[t] = "exit_close"
    /\ IF client # 0
       THEN /\ closed' = [closed EXCEPT ![client] = TRUE]
            /\ pc' = [pc EXCEPT ![t] = "exit_clear"]
            /\ UNCHANGED << exc, result >>
       ELSE /\ closed' = closed
            /\ Leave(t, "AttributeError")
    /\ UNCHANGED << client, kwargs, locals, calls, acquired, runs, overlap >>

\* An exit that closes the client and leaves it in the module global.
ExitClear_keep(t) ==
    /\ pc[t] = "exit_clear"
    /\ Leave(t, exc[t])
    /\ UNCHANGED << client, closed, kwargs, locals, calls, acquired, runs,
                    overlap >>

\*     client = None
ExitClear(t) ==
    /\ pc[t] = "exit_clear"
    /\ client' = 0
    /\ Leave(t, exc[t])
    /\ UNCHANGED << closed, kwargs, locals, calls, acquired, runs, overlap >>

\* ------------------------------------------------------------- the caller
\* The caller takes what run() returned or raised (224-235); the frame of
\* the call is gone.
Collect(t) ==
    /\ pc[t] \in {"returned", "raised"}
    /\ pc' = [pc EXCEPT ![t] = "idle"]
    /\ kwargs' = [kwargs EXCEPT ![t] = NoKwargs]
    /\ tool' = [tool EXCEPT ![t] = << >>]
    /\ schema' = [schema EXCEPT ![t] = << >>]
    /\ prompt' = [prompt EXCEPT ![t] = << >>]
    /\ engine' = [engine EXCEPT ![t] = << >>]
    /\ query_to_be_used' = [query_to_be_used EXCEPT ![t] = << >>]
    /\ requested_data' = [requested_data EXCEPT ![t] = << >>]
    /\ calls' = [calls EXCEPT ![t] = << >>]
    /\ exc' = [exc EXCEPT ![t] = "none"]
    /\ result' = [result EXCEPT ![t] = << >>]
    /\ acquired' = [acquired EXCEPT ![t] = None]
    /\ UNCHANGED << client, closed, runs, overlap >>

\* ------------------------------------------------------------ specification
Next ==
    \E t \in Threads :
        \/ Call(t)
        \/ EnterCheck(t)
        \/ EnterCreate(t)
        \/ EnterReturn(t)
        \/ ReadArgs(t)
        \/ FetchSchema(t)
        \/ BuildPrompt(t)
        \/ CheckTool(t)
        \/ Complete1(t)
        \/ FetchData(t)
        \/ Complete2(t)
        \/ ExitCheck(t)
        \/ ExitClose(t)
        \/ ExitClear(t)
        \/ Collect(t)

\* Callers that wait for one another: runs strictly one after another.
Spec == Init /\ [][Next]_vars

\* Callers that may or may not wait for one another.
SpecConc == InitConc /\ [][Next]_vars

\* ------------------------------------------------- vocabulary of the claims
\* The names in the chat and completion engine lists.
EngineNames == { EngineValues(ENGINES)[i] : i \in 1..Len(EngineValues(ENGINES)) }

\* tl is the prefix followed by one of those names.
IsSupportedTool(tl) == \E name \in EngineNames : tl = PREFIX \o name

\* tl without its first Len(PREFIX) characters.
StripPrefix(tl) == SubSeq(tl, Len(PREFIX) + 1, Len(tl))

\* sub occurs in text.
Contains(text, sub) ==
    \E i \in 1..(Len(text) - Len(sub) + 1) : SubSeq(text, i, i + Len(sub) - 1) = sub

InBody(t) ==
    pc[t] \in {"args", "fetch_schema", "build_prompt", "check_tool",
               "complete1", "fetch_data", "complete2"}
Exiting(t) == pc[t] \in {"exit", "exit_close", "exit_clear"}
Terminated(t) == pc[t] \in {"returned", "raised"}

\* The run passed a tool string that is not in the allow-list.
BadTool(t) == kwargs[t].has_tool /\ ~IsSupportedTool(kwargs[t].tool)
GoodTool(t) == kwargs[t].has_tool /\ IsSupportedTool(kwargs[t].tool)

\* The tool check of the current run has been made.
ToolChecked(t) ==
    /\ prompt[t] # << >>
    /\ pc[t] \in {"complete1", "fetch_data", "complete2", "exit",
                  "exit_close", "exit_clear", "returned", "raised"}

IsCompletion(c) == c.fn = "chat.completions.create"
IsQueryExecution(c) == c.fn = "fetch_data_from_indexer"
IsSchemaFetch(c) == c.fn = "fetch_graphql_schema"

\* The i-th outside call of the run was made and succeeded.
HttpSucceeded(t, i) ==
    /\ Len(calls[t]) >= i
    /\ calls[t][i].status_code = 200
    /\ calls[t][i].json # None
CompletionSucceeded(t, i) ==
    /\ Len(calls[t]) >= i
    /\ IsCompletion(calls[t][i])
    /\ calls[t][i].text # None

AllSucceeded(t) ==
    /\ HttpSucceeded(t, 1) /\ IsSchemaFetch(calls[t][1])
    /\ CompletionSucceeded(t, 2)
    /\ HttpSucceeded(t, 3) /\ IsQueryExecution(calls[t][3])
    /\ CompletionSucceeded(t, 4)

\* The query-generation prompt for the run's arguments and fetched schema.
ExpectedPrompt(t) ==
    generate_graphql_query(kwargs[t].request, calls[t][1].json[1],
                           kwargs[t].description, kwargs[t].examples[1])

\* ---------------------------------------------------------------------- C1
\* C1: once the tool check is made, a tool equal to the prefix followed by a
\* name of the chat or completion list has let the run proceed with the
\* engine equal to exactly that name, which every completion is asked for;
\* any other tool has been rejected: no engine, no completion, the rejection
\* tuple.
C1_ToolResolution ==
    \A t \in Threads :
        ToolChecked(t) =>
            IF IsSupportedTool(tool[t])
            THEN /\ engine[t] \in EngineNames
                 /\ engine[t] = StripPrefix(tool[t])
                 /\ PREFIX \o engine[t] = tool[t]
                 /\ pc[t] = "complete1" \/ Len(calls[t]) >= 2
                 /\ \A i \in 1..Len(calls[t]) :
                        IsCompletion(calls[t][i]) => calls[t][i].engine = engine[t]
            ELSE /\ engine[t] = << >>
                 /\ \A i \in 1..Len(calls[t]) : ~IsCompletion(calls[t][i])
                 /\ result[t] # << >>

C1_Witness ==
    \E t \in Threads :
        /\ tool[t] = PREFIX \o gpt_3_5_turbo_instruct
        /\ engine[t] = gpt_3_5_turbo_instruct
        /\ CompletionSucceeded(t, 2)
        /\ calls[t][2].engine = gpt_3_5_turbo_instruct

\* ---------------------------------------------------------------------- C2
\* C2: a run whose tool is not in the allow-list never executes a query on
\* the indexer and never asks for a completion, and what it returns has in
\* its summary slot a message containing the rejected tool string.
C2_RejectedMakesNoCalls ==
    \A t \in Threads :
        BadTool(t) =>
            /\ \A i \in 1..Len(calls[t]) :
                   /\ ~IsQueryExecution(calls[t][i])
                   /\ ~IsCompletion(calls[t][i])
            /\ pc[t] = "returned" =>
                   /\ result[t][1] # None
                   /\ Contains(result[t][1][1], kwargs[t].tool)

C2_Witness ==
    \E t \in Threads :
        /\ pc[t] = "returned"
        /\ kwargs[t].tool = PREFIX \o gpt_5
        /\ Contains(result[t][1][1], PREFIX \o gpt_5)
        /\ Len(calls[t]) = 1

\* ---------------------------------------------------------------------- C3
\* C3: whenever a run has terminated, by return or by an error, the client
\* its __enter__ acquired has been closed and the module global is None.
C3_ClientReleased ==
    \A t \in Threads :
        Terminated(t) =>
            /\ client = 0
            /\ acquired[t] # None
            /\ closed[acquired[t][1]]

C3_Witness ==
    \E t \in Threads :
        /\ pc[t] = "raised"
        /\ Len(calls[t]) = 3
        /\ calls[t][3].status_code = 500
        /\ client = 0
        /\ acquired[t] # None
        /\ closed[acquired[t][1]]

\* ---------------------------------------------------------------------- C4
\* C4: a terminated run with a supported tool whose schema fetch, two
\* completions and query execution all succeeded has returned the tuple
\* (text of the second completion, the prompt built from request, fetched
\* schema, description and examples, None, None).
C4_SuccessTuple ==
    \A t \in Threads :
        (Terminated(t) /\ GoodTool(t) /\ AllSucceeded(t)) =>
            /\ pc[t] = "returned"
            /\ result[t] = << Some(calls[t][4].text[1]), Some(ExpectedPrompt(t)),
                              None, None >>

C4_Witness ==
    \E t \in Threads :
        /\ pc[t] = "returned"
        /\ AllSucceeded(t)
        /\ calls[t][1].json = Some(EmptySchema)
        /\ result[t][1] = Some(<<"summary">>)
        /\ result[t][2] = Some(ExpectedPrompt(t))

\* ---------------------------------------------------------------------- C5
\* C5: when the introspection call answers with a status other than 200, the
\* run is failing with an error and has made no other outside call: no
\* completion and no query execution.
C5_SchemaFailureStops ==
    \A t \in Threads :
        (Len(calls[t]) >= 1 /\ calls[t][1].status_code # 200) =>
            /\ Len(calls[t]) = 1
            /\ IsSchemaFetch(calls[t][1])
            /\ Exiting(t) \/ pc[t] = "raised"
            /\ exc[t] # "none"
            /\ result[t] = << >>

C5_Witness ==
    \E t \in Threads :
        /\ pc[t] = "raised"
        /\ Len(calls[t]) = 1
        /\ calls[t][1].status_code = 500
        /\ exc[t] = "Exception"

\* ---------------------------------------------------------------------- C6
\* C6: when the query-execution call answers with a status other than 200,
\* the run is failing with an error, returns no tuple, and has not asked for
\* the second completion.
C6_IndexerFailureStops ==
    \A t \in Threads :
        (Len(calls[t]) >= 3 /\ calls[t][3].status_code # 200) =>
            /\ Len(calls[t]) = 3
            /\ IsQueryExecution(calls[t][3])
            /\ Exiting(t) \/ pc[t] = "raised"
            /\ exc[t] # "none"
            /\ result[t] = << >>

C6_Witness ==
    \E t \in Threads :
        /\ pc[t] = "raised"
        /\ Len(calls[t]) = 3
        /\ IsQueryExecution(calls[t][3])
        /\ calls[t][3].status_code = 500
        /\ result[t] = << >>

\* ---------------------------------------------------------------------- C7
\* C7, as claimed: every terminated run whose tool is not in the allow-list
\* has returned to its caller, whatever the other steps did.
C7_AsClaimed ==
    \A t \in Threads : (Terminated(t) /\ BadTool(t)) => pc[t] = "returned"

\* C7, amended: among runs that do not overlap, a terminated run whose tool
\* is not in the allow-list has returned the message-only tuple exactly when
\* the steps before the tool check went through (the schema was fetched and
\* the prompt built, which needs the examples); otherwise it was aborted by
\* the error of that earlier step.  And rejection is the one failure that
\* returns: a run that returned either succeeded at all four outside calls
\* or had its tool rejected.
C7_SoftRejection ==
    \A t \in Threads :
        /\ (Terminated(t) /\ BadTool(t)) =>
               IF HttpSucceeded(t, 1) /\ kwargs[t].examples # None
               THEN /\ pc[t] = "returned"
                    /\ exc[t] = "none"
                    /\ result[t][1] # None
                    /\ Contains(result[t][1][1], <<" is not in the list of supported tools.">>)
                    /\ \A i \in 2..4 : result[t][i] = None
               ELSE /\ pc[t] = "raised"
                    /\ exc[t] \in {"Exception", "JSONDecodeError", "TypeError"}
                    /\ result[t] = << >>
        /\ pc[t] = "returned" => (BadTool(t) \/ (GoodTool(t) /\ AllSucceeded(t)))

C7_Witness ==
    \E t \in Threads :
        /\ pc[t] = "returned"
        /\ kwargs[t].tool = PREFIX \o PREFIX \o gpt_4
        /\ HttpSucceeded(t, 1)
        /\ result[t][1] # None
        /\ \A i \in 2..4 : result[t][i] = None

\* ---------------------------------------------------------------------- C8
\* C8: a run that returned on the tool-rejection path, its schema fetched,
\* had built the query-generation prompt before the tool check, and returns
\* None in the query-prompt slot and in both reserved slots.
C8_RejectionDiscardsPrompt ==
    \A t \in Threads :
        (pc[t] = "returned" /\ BadTool(t) /\ HttpSucceeded(t, 1)) =>
            /\ prompt[t] = ExpectedPrompt(t)
            /\ Len(result[t]) = 4
            /\ result[t][2] = None
            /\ result[t][3] = None
            /\ result[t][4] = None

C8_Witness ==
    \E t \in Threads :
        /\ pc[t] = "returned"
        /\ kwargs[t].tool = gpt_4
        /\ HttpSucceeded(t, 1)
        /\ prompt[t] = ExpectedPrompt(t)
        /\ result[t][2] = None

\* ---------------------------------------------------------------------- C9
\* C9: a run with a supported tool that returned made exactly four outside
\* calls, in the order schema fetch, completion, query execution,
\* completion; the first completion got the one-message conversation with
\* the query-generation prompt, the query executed is the text the first
\* completion returned, and the second completion got the three messages
\* prompt, generated query, analysis prompt of the query result.
C9_CallOrder ==
    \A t \in Threads :
        (pc[t] = "returned" /\ GoodTool(t)) =>
            /\ Len(calls[t]) = 4
            /\ IsSchemaFetch(calls[t][1])
            /\ calls[t][1].query = introspection_query
            /\ IsCompletion(calls[t][2])
            /\ calls[t][2].messages = << UserMessage(ExpectedPrompt(t)) >>
            /\ IsQueryExecution(calls[t][3])
            /\ calls[t][3].query = calls[t][2].text[1]
            /\ calls[t][3].endpoint = kwargs[t].endpoint
            /\ IsCompletion(calls[t][4])
            /\ calls[t][4].messages =
                   << UserMessage(ExpectedPrompt(t)),
                      UserMessage(calls[t][2].text[1]),
                      UserMessage(analyze_data_and_generate_response(calls[t][3].json[1])) >>

C9_Witness ==
    \E t \in Threads :
        /\ pc[t] = "returned"
        /\ GoodTool(t)
        /\ Len(calls[t]) = 4
        /\ calls[t][2].text = Some(<<"query { nodes }">>)
        /\ calls[t][3].query = <<"query { nodes }">>
        /\ Len(calls[t][4].messages) = 3
        /\ calls[t][4].messages[2].content = <<"query { nodes }">>

\* --------------------------------------------------------------------- C10
\* C10: when the runs do not overlap, every completion is invoked on an open
\* client that is in the module global.  (The witness is the other half:
\* with overlapping runs, one run has invoked a completion while the global
\* was None and another while it held a client already closed.)
C10_SequentialRunsUseOpenClient ==
    ~overlap =>
        \A t \in Threads : \A i \in 1..Len(calls[t]) :
            IsCompletion(calls[t][i]) =>
                /\ calls[t][i].conn # 0
                /\ calls[t][i].usable
                /\ acquired[t] = Some(calls[t][i].conn)

C10_Witness ==
    /\ overlap
    /\ \E t \in Threads : \E i \in 1..Len(calls[t]) :
           /\ IsCompletion(calls[t][i])
           /\ calls[t][i].conn = 0
    /\ \E t \in Threads : \E i \in 1..Len(calls[t]) :
           /\ IsCompletion(calls[t][i])
           /\ calls[t][i].conn # 0
           /\ ~calls[t][i].usable

====
